---- MODULE Spec2Model ----
(***************************************************************************)
(* Model of kamaki.clients.pithos.PithosClient: the hash-map negotiated    *)
(* object upload (create_object / put_block) with its progress generators, *)
(* and the range writes overwrite_object, append_object and                *)
(* truncate_object, against a block store that answers the client's       *)
(* requests.                                                               *)
(***************************************************************************)
EXTENDS Integers, Sequences, FiniteSets, TLC

\* ------------------------------------------------------------- bounds
MaxLen == 3         \* longest source file, in bytes
MaxBlockSize == 2   \* largest x-container-block-size
MaxStart == 1       \* largest read position of the source when a call starts
MaxMissing == 2     \* longest missing list of an unfaithful 409 reply
MaxCalls == 2       \* calls issued on one client
MaxRange == 3       \* largest start / end argument of overwrite_object
MaxShort == 1       \* most next() calls a progress generator falls short of

\* ------------------------------------------------------------- values
NUL == 0
Bytes == {NUL, 1}
WS == "ws"
NoBlock == <<>>

SeqsUpTo(S, n) == UNION {[1..j -> S] : j \in 0..n}

Range(s) == {s[j] : j \in 1..Len(s)}

Min(S) == CHOOSE x \in S : \A y \in S : x <= y

RECURSIVE Rstrip(_)
\* str.rstrip('\x00'): drop every trailing NUL
Rstrip(s) ==
    IF s # <<>> /\ s[Len(s)] = NUL THEN Rstrip(SubSeq(s, 1, Len(s) - 1)) ELSE s

\* hashlib digest: a collision-free function of the bytes it is fed
Digest(s) == <<"h", s>>

\* the digest of the block as it is, trailing NULs included
pithos_hash_Raw(block) == Digest(block)

\* lines 43-46: the digest of the block without its trailing NULs
pithos_hash(block) == Digest(Rstrip(block))

\* the fingerprint of a block that is no block of the source
Foreign == Digest(<<-1>>)

RECURSIVE Strip(_)
\* str.strip(): drop leading and trailing whitespace
Strip(t) ==
    IF t # <<>> /\ t[1] = WS THEN Strip(Tail(t))
    ELSE IF t # <<>> /\ t[Len(t)] = WS THEN Strip(SubSeq(t, 1, Len(t) - 1))
    ELSE t

\* file.read(n) at position p: at most n bytes, all that is left when n < 0
Read(f, p, n) ==
    LET avail == IF p >= Len(f) THEN 0 ELSE Len(f) - p
        cnt == IF n < 0 THEN avail ELSE Min({n, avail})
    IN SubSeq(f, p + 1, p + cnt)

\* python's range(n): empty when n <= 0
RangeLen(n) == IF n > 0 THEN n ELSE 0

\* an assignment that keeps the value a key already has (dict.setdefault)
DictSet_KeepFirst(d, key, val) ==
    [x \in DOMAIN d \cup {key} |-> IF x \in DOMAIN d THEN d[x] ELSE val]

\* dict item assignment d[key] = val: a later assignment replaces an earlier one
DictSet(d, key, val) ==
    [x \in DOMAIN d \cup {key} |-> IF x = key THEN val ELSE d[x]]

EmptyDict == [x \in {} |-> <<0, 0>>]

\* ------------------------------------------------------------- state
VARIABLES
    src,        \* the bytes of the source file f / source_file
    fpos,       \* its read position
    blocksize,  \* meta['x-container-block-size'] of the container
    blocks,     \* fingerprints of the blocks the store holds
    faithful,   \* the store is one that answers by what it holds
    honest,     \* every reply so far agreed with what the store holds
    headers,    \* self.headers, the headers the next request carries
    pc,         \* where the running call stands
    op,         \* the method that is running
    callNo,     \* calls started so far
    startPos,   \* fpos when the running call started
    size, nblocks, hashes, map, offset, i,   \* locals of create_object
    chunks,     \* (offset, bytes) of each block the hashing loop has read
    missing, m,                              \* r.json and the index of `for hash in missing`
    start, end, filesize, datasize,          \* locals of overwrite_object
    log,        \* requests the running call has issued, with their replies
    accepted,   \* fingerprints the store accepted from the running call
    hash_cb, upload_cb,     \* the progress generator functions the caller passed
    hash_gen, upload_gen,   \* the generators made from them
    notes,      \* the next() calls that returned, in order
    err,        \* the exception the running call ended with
    prev        \* summary of the call before the running one

vars == <<src, fpos, blocksize, blocks, faithful, honest, headers, pc, op, callNo, startPos,
          size, nblocks, hashes, map, offset, i, missing, m,
          chunks, start, end, filesize, datasize, log, accepted, err, prev,
          hash_cb, upload_cb, hash_gen, upload_gen, notes>>

envVars == <<src, blocksize, faithful>>
createVars == <<size, nblocks, hashes, map, chunks, missing, m>>
overwriteVars == <<start, end, filesize, datasize>>
sinkVars == <<hash_cb, upload_cb, hash_gen, upload_gen, notes>>

NoErr == [kind |-> "none", phase |-> "none", status |-> 0, block |-> NoBlock]

\* ClientError(message, status) as the HTTP layer raises it for a reply whose
\* status is not among the expected ones
ClientError(phase, status) ==
    [kind |-> "ClientError", phase |-> phase, status |-> status, block |-> NoBlock]

\* a failed assert statement
AssertionError(phase) ==
    [kind |-> "AssertionError", phase |-> phase, status |-> 0, block |-> NoBlock]

\* map[hash] for a hash that is no key of map: KeyError(hash)
KeyError(hash) ==
    [kind |-> "KeyError", phase |-> "upload", status |-> 0, block |-> hash]

\* next() on a generator that has returned: StopIteration
StopIteration(phase) ==
    [kind |-> "StopIteration", phase |-> phase, status |-> 0, block |-> NoBlock]

NoPrev == [op |-> "none", ok |-> FALSE, size |-> 0, start |-> 0, accepted |-> {},
           hashes |-> <<>>]

Summary ==
    IF pc = "idle" THEN NoPrev
    ELSE [op |-> op, ok |-> (pc = "done"), size |-> size, start |-> startPos,
          accepted |-> accepted, hashes |-> hashes]

\* self.set_header(name, value)
set_header(h, name, value) == DictSet(h, name, value)

\* the `success` argument of self.put / self.post: any other status raises
Succeeds(status, success) == status \in success

\* a client that has run no call
Idle ==
    /\ fpos = 0
    /\ honest = TRUE
    /\ headers = [x \in {} |-> 0]
    /\ pc = "idle" /\ op = "none" /\ callNo = 0 /\ startPos = 0
    /\ size = 0 /\ nblocks = 0 /\ hashes = <<>> /\ map = EmptyDict
    /\ offset = 0 /\ i = 0 /\ chunks = <<>> /\ missing = <<>> /\ m = 0
    /\ start = 0 /\ end = 0 /\ filesize = 0 /\ datasize = 0
    /\ log = <<>> /\ accepted = {} /\ err = NoErr /\ prev = NoPrev
    /\ hash_cb = <<>> /\ upload_cb = <<>> /\ hash_gen = <<>> /\ upload_gen = <<>>
    /\ notes = <<>>

\* before the first call: a source, a container and a store that holds nothing
\* of the source or its first block
Start ==
    /\ src \in SeqsUpTo(Bytes, MaxLen)
    /\ blocksize \in 1..MaxBlockSize
    /\ blocks \in SUBSET {pithos_hash(Read(src, 0, blocksize))}
    /\ Idle
\* one call, against a store that may answer anything
Init == Start /\ faithful = FALSE

\* repeated calls, against a store that answers by what it holds
ResumeInit == Start /\ faithful = TRUE

\* a call may start on a client that runs no call
CanCall == pc \in {"idle", "done", "failed"} /\ callNo < MaxCalls

\* what every call resets when it starts
BeginCall(name, pos) ==
    /\ CanCall
    /\ op' = name /\ callNo' = callNo + 1
    /\ startPos' = pos /\ fpos' = pos
    /\ log' = <<>> /\ accepted' = {}
    /\ prev' = Summary

\* the exception caught and the failed step run again
Fail_Retry(e) == pc' = pc /\ err' = err

\* an exception nothing catches ends the call
Fail(e) == pc' = "failed" /\ err' = e

\* ------------------------------------------------- create_object
Sizes == -1..(MaxLen + 1)
SizeArgs == {<<>>} \cup {<<n>> : n \in Sizes}     \* <<>> is size=None

\* ------------------------------------------------- progress generators
\* a generator function as the caller passes it: <<>> is None, <<d>> one whose
\* generator for n steps yields n + 1 - d times and then returns
SinkArgs == {<<>>} \cup {<<d>> : d \in 0..MaxShort}

NoGen == <<>>

\* cb(n): the generator, as the number of next() calls it still answers
Generator(cb, n) ==
    LET yields == RangeLen(n) + 1 - cb[1]
    IN IF cb = <<>> THEN NoGen ELSE <<RangeLen(yields)>>

\* `if cb: gen.next()` raises StopIteration
Raises(cb, gen) == cb # <<>> /\ gen[1] = 0

\* `if cb: gen.next()`: the generator after the statement
Advance(cb, gen) == IF cb = <<>> \/ Raises(cb, gen) THEN gen ELSE <<gen[1] - 1>>

\* notes after `if cb: gen.next()`, made when `sent` requests were out and `done`
\* steps of `total` were complete
Noted(cb, gen, sink, sent, done, total) ==
    IF cb = <<>> \/ Raises(cb, gen) THEN notes
    ELSE Append(notes, [sink |-> sink, sent |-> sent, done |-> done, total |-> total])

\* ------------------------------------------------- create_object (continued)
\* a block count that adds a block to a size that fills its blocks
NBlocks_Extra(n) == 1 + (n \div blocksize)

\* line 81: nblocks = 1 + (size - 1) // blocksize
NBlocks(n) == 1 + ((n - 1) \div blocksize)

\* lines 74-89: the call, up to the hashing loop
create_object(size_arg, pos, hcb, ucb) ==
    /\ BeginCall("create_object", pos)
    /\ LET sz == IF size_arg = <<>> THEN Len(src) ELSE size_arg[1]
       IN /\ size' = sz
          /\ nblocks' = NBlocks(sz)
    /\ hashes' = <<>> /\ map' = EmptyDict /\ offset' = 0 /\ i' = 0
    /\ chunks' = <<>> /\ missing' = <<>> /\ m' = 0
    /\ hash_cb' = hcb /\ upload_cb' = ucb /\ upload_gen' = NoGen
    /\ LET gen == Generator(hcb, nblocks')
       IN /\ hash_gen' = Advance(hcb, gen)
          /\ notes' = IF hcb = <<>> \/ Raises(hcb, gen) THEN <<>>
                      ELSE <<[sink |-> "hash", sent |-> 0, done |-> 0, total |-> nblocks']>>
          /\ IF Raises(hcb, gen)
             THEN Fail(StopIteration("hash"))
             ELSE pc' = "hashing" /\ err' = NoErr
    /\ UNCHANGED <<envVars, blocks, honest, headers, overwriteVars>>

\* a read of a whole block, whatever is left of size
ReadLen_WholeBlock == blocksize

\* line 92: the argument of f.read, min(blocksize, size - offset)
ReadLen == Min({blocksize, size - offset})

\* hash_gen.next() called at the top of the loop body, before the block is read
Hashed_LoopTop == i

\* lines 98-99 end the loop body: the blocks hashed when hash_gen.next() is called
Hashed == i + 1

\* lines 91-99: one iteration of `for i in range(nblocks)`
HashBlock ==
    /\ pc = "hashing" /\ op = "create_object" /\ i < RangeLen(nblocks)
    /\ LET block == Read(src, fpos, ReadLen)
           bytes == Len(block)
           hash == pithos_hash(block)
       IN /\ hashes' = Append(hashes, hash)
          /\ map' = DictSet(map, hash, <<offset, bytes>>)
          /\ chunks' = Append(chunks, <<offset, bytes>>)
          /\ offset' = offset + bytes
          /\ fpos' = fpos + bytes
    /\ i' = i + 1
    /\ hash_gen' = Advance(hash_cb, hash_gen)
    /\ notes' = Noted(hash_cb, hash_gen, "hash", Len(log), Hashed, nblocks)
    /\ IF Raises(hash_cb, hash_gen)
       THEN Fail(StopIteration("hash"))
       ELSE pc' = pc /\ err' = err
    /\ UNCHANGED <<envVars, blocks, honest, headers, op, callNo, startPos,
                   size, nblocks, missing, m, overwriteVars, log, accepted, prev,
                   hash_cb, upload_cb, upload_gen>>

\* the assert left out (python -O, or the statement dropped)
SizeAgrees_Unchecked == TRUE

\* line 101: the condition of `assert offset == size`
SizeAgrees == offset = size

\* line 101: the assert, after the loop
AssertSize ==
    /\ pc = "hashing" /\ op = "create_object" /\ i >= RangeLen(nblocks)
    /\ IF SizeAgrees
       THEN pc' = "put1" /\ err' = err
       ELSE Fail(AssertionError("size"))
    /\ UNCHANGED <<envVars, fpos, blocks, honest, headers, op, callNo, startPos,
                   createVars, offset, i, overwriteVars, log, accepted, prev,
                   sinkVars>>

\* ------------------------------------------------- the block store
\* a reply with a status outside the expected ones: the request failed
FaultStatus == 500

RECURSIVE Distinct(_)
\* the first occurrences of s, in order
Distinct(s) ==
    IF s = <<>> THEN <<>>
    ELSE LET r == Distinct(SubSeq(s, 1, Len(s) - 1))
         IN IF s[Len(s)] \in Range(r) THEN r ELSE Append(r, s[Len(s)])

\* the fingerprints of hs the store does not hold, each once, in hash-map order
StoreMissing(hs, blks) ==
    LET d == Distinct(hs) IN SelectSeq(d, LAMBDA h : h \notin blks)

\* what a store that answers by its content replies to a hash-map PUT
FaithfulHashmapReply(hs, blks) ==
    IF StoreMissing(hs, blks) = <<>>
    THEN [status |-> 201, json |-> <<>>, kind |-> "faithful"]
    ELSE [status |-> 409, json |-> StoreMissing(hs, blks), kind |-> "faithful"]

\* every reply the client may get to a hash-map PUT: the faithful one, a reply
\* that disagrees with the store's content, or a failure
HashmapReplies(hs, blks) ==
    LET good == FaithfulHashmapReply(hs, blks)
        any == {[status |-> 201, json |-> <<>>, kind |-> "unfaithful"]}
               \cup {[status |-> 409, json |-> j, kind |-> "unfaithful"] :
                       j \in SeqsUpTo(Range(hs) \cup {Foreign}, MaxMissing)}
    IN {good}
       \cup {r \in any : r.status # good.status \/ r.json # good.json}
       \cup {[status |-> FaultStatus, json |-> <<>>, kind |-> "fault"]}

\* every reply the client may get to the POST of block data, sent for fingerprint
\* hash: the block's fingerprint as the store computes it (with or without a
\* trailing newline), another fingerprint, or a failure
BlockReplies(data, hash) ==
    LET fp == pithos_hash(data)
    IN {[status |-> 202, text |-> t, kind |-> "faithful"] : t \in {<<fp>>, <<fp, WS>>}}
       \cup {[status |-> 202, text |-> <<g>>, kind |-> "unfaithful"] :
               g \in {hash, Foreign} \ {fp}}
       \cup {[status |-> FaultStatus, text |-> <<>>, kind |-> "fault"]}

\* the replies of R the store may give
Allowed(R) == IF faithful THEN {r \in R : r.kind # "unfaithful"} ELSE R

\* one entry of log
Sent(req, body, hash, at, hdrs, reply) ==
    [req |-> req, body |-> body, hash |-> hash, at |-> at, headers |-> hdrs,
     status |-> reply.status,
     text |-> IF req = "hashmap" THEN reply.json ELSE reply.text]

\* line 104: hashmap = dict(bytes=size, hashes=hashes)
hashmap == [bytes |-> size, hashes |-> hashes]

\* the early return left out: a 201 falls through to the upload loop
Stored_Never(r) == FALSE

\* the early return taken on either expected status
Stored_AnySuccess(r) == r.status \in {201, 409}

\* line 108: r.status_code == 201, the object is stored and the call returns
Stored(r) == r.status = 201

\* the loop walking every hash-map position whose fingerprint is missing
ToUpload_Positions == SelectSeq(hashes, LAMBDA h : h \in Range(missing))

\* the loop walking the whole hash map, whatever the store reported
ToUpload_Hashes == hashes

\* line 117: the sequence `for hash in missing` walks
ToUpload == missing

\* the finalizing PUT expecting what the first one expects
FinalSuccess_Lenient == {201, 409}

\* line 125: the statuses the finalizing PUT expects
FinalSuccess == {201}

\* the upload generator made for the blocks of the source
UploadSteps_Blocks(json) == nblocks

\* line 114: the argument of upload_cb, len(missing)
UploadSteps(json) == Len(json)

\* lines 103-115: the first hash-map PUT and the branch on its status
PutHashmap ==
    /\ pc = "put1" /\ op = "create_object"
    /\ headers' = set_header(headers, "Content-Type", "application/octet-stream")
    /\ \E r \in Allowed(HashmapReplies(hashes, blocks)) :
        /\ log' = Append(log, Sent("hashmap", hashmap, NoBlock, <<0, 0>>, headers', r))
        /\ honest' = (honest /\ r.kind # "unfaithful")
        /\ IF ~Succeeds(r.status, {201, 409})
           THEN /\ Fail(ClientError("hashmap", r.status)) /\ missing' = missing
                /\ UNCHANGED <<upload_gen, notes>>
           ELSE IF Stored(r)
           THEN /\ pc' = "done" /\ err' = err /\ missing' = missing
                /\ UNCHANGED <<upload_gen, notes>>
           ELSE LET gen == Generator(upload_cb, UploadSteps(r.json))
                IN /\ missing' = r.json
                   /\ upload_gen' = Advance(upload_cb, gen)
                   /\ notes' = Noted(upload_cb, gen, "upload", Len(log'), 0,
                                     UploadSteps(r.json))
                   /\ IF Raises(upload_cb, gen)
                      THEN Fail(StopIteration("upload"))
                      ELSE pc' = "upload" /\ err' = err
    /\ m' = 0
    /\ UNCHANGED <<envVars, fpos, blocks, op, callNo, startPos, size, nblocks,
                   hashes, map, chunks, offset, i, overwriteVars, accepted, prev,
                   hash_cb, upload_cb, hash_gen>>

\* put_block with whatever it raises caught and dropped
put_block_Swallow(hash, r) == NoErr

\* put_block without the comparison of the reply with the local hash
put_block_Unchecked(hash, r) ==
    IF ~Succeeds(r.status, {202}) THEN ClientError("put_block", r.status) ELSE NoErr

\* lines 57-62: what put_block raises for the reply r to its POST
put_block(hash, r) ==
    IF ~Succeeds(r.status, {202}) THEN ClientError("put_block", r.status)
    ELSE IF Strip(r.text) # <<hash>> THEN AssertionError("put_block")
    ELSE NoErr

\* the read made where the hashing loop left the file, f.seek left out
SeekTo_Stay(off) == fpos

\* line 119: f.seek(offset), the position the read at line 120 starts from
SeekTo(off) == off

\* an entry that is no key of map passed over (`if hash not in map: continue`)
Unknown_Skip(hash) == pc' = pc /\ err' = err /\ m' = m + 1

\* line 118: map[hash] for a hash that is no key of map raises KeyError
Unknown(hash) == Fail(KeyError(hash)) /\ m' = m

\* lines 117-123: one iteration of `for hash in missing`
UploadBlock ==
    /\ pc = "upload" /\ op = "create_object" /\ m < Len(ToUpload)
    /\ LET hash == ToUpload[m + 1]
       IN IF hash \notin DOMAIN map
          THEN /\ Unknown(hash)
               /\ UNCHANGED <<fpos, offset, headers, log, blocks, accepted, honest,
                              upload_gen, notes>>
          ELSE LET off == map[hash][1]
                   bytes == map[hash][2]
                   data == Read(src, SeekTo(off), bytes)
               IN /\ offset' = off
                  /\ fpos' = SeekTo(off) + Len(data)
                  /\ headers' = set_header(
                         set_header(headers, "Content-Type", "application/octet-stream"),
                         "Content-Length", Len(data))
                  /\ \E r \in Allowed(BlockReplies(data, hash)) :
                      /\ log' = Append(log, Sent("block", data, hash, <<off, bytes>>, headers', r))
                      /\ honest' = (honest /\ r.kind # "unfaithful")
                      /\ IF r.status = 202
                         THEN /\ blocks' = blocks \cup {pithos_hash(data)}
                              /\ accepted' = accepted \cup {pithos_hash(data)}
                         ELSE UNCHANGED <<blocks, accepted>>
                      /\ IF put_block(hash, r) # NoErr
                         THEN /\ Fail(put_block(hash, r)) /\ m' = m
                              /\ UNCHANGED <<upload_gen, notes>>
                         ELSE /\ m' = m + 1
                              /\ upload_gen' = Advance(upload_cb, upload_gen)
                              /\ notes' = Noted(upload_cb, upload_gen, "upload",
                                                Len(log'), m + 1, UploadSteps(missing))
                              /\ IF Raises(upload_cb, upload_gen)
                                 THEN Fail(StopIteration("upload"))
                                 ELSE pc' = pc /\ err' = err
    /\ UNCHANGED <<envVars, op, callNo, startPos, size, nblocks, hashes, map, i,
                   chunks, missing, overwriteVars, prev, hash_cb, upload_cb, hash_gen>>

\* the finalizing PUT not waiting for the loop
UploadsOver_Eager == TRUE

\* line 117: `for hash in missing` has walked every entry
UploadsOver == m >= Len(ToUpload)

\* line 125: the finalizing hash-map PUT, after the loop
FinalPut ==
    /\ pc = "upload" /\ op = "create_object" /\ UploadsOver
    /\ \E r \in Allowed(HashmapReplies(hashes, blocks)) :
        /\ log' = Append(log, Sent("hashmap", hashmap, NoBlock, <<0, 0>>, headers, r))
        /\ honest' = (honest /\ r.kind # "unfaithful")
        /\ IF ~Succeeds(r.status, FinalSuccess)
           THEN Fail(ClientError("finalize", r.status))
           ELSE pc' = "done" /\ err' = err
    /\ UNCHANGED <<envVars, fpos, blocks, headers, op, callNo, startPos, createVars,
                   offset, i, overwriteVars, accepted, prev, sinkVars>>

\* ------------------------------------------------- overwrite_object
\* every reply the client may get to a range POST
RangeReplies ==
    {[status |-> s, text |-> <<>>, kind |-> "faithful"] : s \in {202, 204}}
    \cup {[status |-> FaultStatus, text |-> <<>>, kind |-> "fault"]}

\* lines 305-314: the call, up to the loop
overwrite_object(start_arg, end_arg, pos) ==
    /\ BeginCall("overwrite_object", pos)
    /\ start' = start_arg /\ end' = end_arg
    /\ filesize' = Len(src)
    /\ datasize' = end_arg - start_arg + 1
    /\ nblocks' = 1 + ((datasize' - 1) \div blocksize)
    /\ offset' = 0 /\ i' = 0
    /\ headers' = set_header(
           set_header(headers, "Content-Range", <<"bytes", start_arg, end_arg>>),
           "Content-Type", "application/octet-stream")
    /\ pc' = IF RangeLen(nblocks') = 0 THEN "done" ELSE "window"
    /\ err' = NoErr
    /\ UNCHANGED <<envVars, blocks, honest, size, hashes, map, chunks, missing, m,
                   sinkVars>>

\* a read bounded by the block size and the file size only
WindowLen_NoData == Min({blocksize, filesize - offset})

\* line 316: the argument of source_file.read
WindowLen == Min({blocksize, filesize - offset, datasize - offset})

\* lines 315-319: one iteration of `for i in range(nblocks)`
OverwriteWindow ==
    /\ pc = "window" /\ op = "overwrite_object" /\ i < RangeLen(nblocks)
    /\ LET block == Read(src, fpos, WindowLen)
       IN /\ offset' = offset + Len(block)
          /\ fpos' = fpos + Len(block)
          /\ headers' = set_header(headers, "Content-Length", Len(block))
          /\ \E r \in RangeReplies :
              /\ log' = Append(log, Sent("range", block, NoBlock, <<fpos, Len(block)>>,
                                         headers', r))
              /\ IF ~Succeeds(r.status, {202, 204})
                 THEN Fail(ClientError("post", r.status))
                 ELSE /\ err' = err
                      /\ pc' = IF i + 1 < RangeLen(nblocks) THEN "window" ELSE "done"
    /\ i' = i + 1
    /\ UNCHANGED <<envVars, blocks, honest, op, callNo, startPos, createVars,
                   overwriteVars, accepted, prev, sinkVars>>

\* ------------------------------------------------- append_object
\* the '*' of a Content-Range, standing where a byte position may stand
Star == -1

\* lines 275-284: the call, up to the loop
append_object(pos) ==
    /\ BeginCall("append_object", pos)
    /\ filesize' = Len(src)
    /\ nblocks' = 1 + ((filesize' - 1) \div blocksize)
    /\ offset' = 0 /\ i' = 0
    /\ headers' = set_header(
           set_header(headers, "Content-Range", <<"bytes", Star, Star>>),
           "Content-Type", "application/octet-stream")
    /\ pc' = IF RangeLen(nblocks') = 0 THEN "done" ELSE "appending"
    /\ err' = NoErr
    /\ UNCHANGED <<envVars, blocks, honest, size, hashes, map, chunks, missing, m,
                   start, end, datasize, sinkVars>>

\* a read of all that is left of the file
AppendLen_Rest == filesize - offset

\* line 286: the argument of source_file.read, min(blocksize, filesize - offset)
AppendLen == Min({blocksize, filesize - offset})

\* lines 285-289: one iteration of `for i in range(nblocks)`
AppendBlock ==
    /\ pc = "appending" /\ op = "append_object" /\ i < RangeLen(nblocks)
    /\ LET block == Read(src, fpos, AppendLen)
       IN /\ offset' = offset + Len(block)
          /\ fpos' = fpos + Len(block)
          /\ headers' = set_header(headers, "Content-Length", Len(block))
          /\ \E r \in RangeReplies :
              /\ log' = Append(log, Sent("append", block, NoBlock, <<fpos, Len(block)>>,
                                         headers', r))
              /\ IF ~Succeeds(r.status, {202, 204})
                 THEN Fail(ClientError("post", r.status))
                 ELSE /\ err' = err
                      /\ pc' = IF i + 1 < RangeLen(nblocks) THEN "appending" ELSE "done"
    /\ i' = i + 1
    /\ UNCHANGED <<envVars, blocks, honest, op, callNo, startPos, createVars,
                   overwriteVars, accepted, prev, sinkVars>>

\* ------------------------------------------------- truncate_object
Objects == {"obj", "other"}

\* utils.path4url: the path made of the given components
path4url(components) == components

\* the range ending at the last byte kept, 'bytes 0-%s/*' % (upto_bytes - 1)
TruncateRange_LastByte(upto_bytes) == <<"bytes", 0, upto_bytes - 1>>

\* line 293: 'bytes 0-%s/*' % upto_bytes
TruncateRange(upto_bytes) == <<"bytes", 0, upto_bytes>>

\* lines 291-298: the whole call, one POST without data
truncate_object(object, upto_bytes) ==
    /\ CanCall
    /\ op' = "truncate_object" /\ callNo' = callNo + 1
    /\ startPos' = fpos /\ fpos' = fpos
    /\ accepted' = {} /\ prev' = Summary
    /\ headers' = set_header(set_header(set_header(set_header(headers,
           "Content-Range", TruncateRange(upto_bytes)),
           "Content-Type", "application/octet-stream"),
           "X-Object-Bytes", upto_bytes),
           "X-Source-Object", path4url(<<"container", object>>))
    /\ \E r \in RangeReplies :
        /\ log' = <<Sent("truncate", NoBlock, NoBlock, <<0, 0>>, headers', r)
                    @@ [path |-> path4url(<<"account", "container", object>>),
                        object |-> object, upto_bytes |-> upto_bytes]>>
        /\ IF ~Succeeds(r.status, {202, 204})
           THEN Fail(ClientError("post", r.status))
           ELSE pc' = "done" /\ err' = NoErr
    /\ UNCHANGED <<envVars, blocks, honest, createVars, offset, i, overwriteVars,
                   sinkVars>>

\* the caller calls create_object again on the same source, size and position
Reinvoke ==
    /\ callNo > 0 /\ op = "create_object"
    /\ create_object(<<size>>, startPos, hash_cb, upload_cb)

\* a call that passes no progress generator
FirstCreate ==
    \E a \in SizeArgs, p \in 0..MaxStart : callNo = 0 /\ create_object(a, p, <<>>, <<>>)

FirstOverwrite ==
    \E s \in 0..MaxRange, e \in 0..MaxRange, p \in 0..MaxStart :
        callNo = 0 /\ overwrite_object(s, e, p)

FirstAppend == \E p \in 0..MaxStart : callNo = 0 /\ append_object(p)

FirstTruncate ==
    \E o \in Objects, n \in 0..MaxRange : callNo = 0 /\ truncate_object(o, n)

Next ==
    \/ FirstCreate
    \/ HashBlock
    \/ AssertSize
    \/ PutHashmap
    \/ UploadBlock
    \/ FinalPut
    \/ FirstOverwrite
    \/ OverwriteWindow
    \/ FirstAppend
    \/ AppendBlock
    \/ FirstTruncate

Spec == Init /\ [][Next]_vars

\* the steps of a call that is under way
CallSteps ==
    \/ HashBlock
    \/ AssertSize
    \/ PutHashmap
    \/ UploadBlock
    \/ FinalPut
    \/ OverwriteWindow
    \/ AppendBlock

\* a call that is under way goes on: its thread runs and the store answers
FairSpec == Init /\ [][Next]_vars /\ WF_vars(CallSteps)

ResumeNext ==
    \/ FirstCreate
    \/ Reinvoke
    \/ HashBlock
    \/ AssertSize
    \/ PutHashmap
    \/ UploadBlock
    \/ FinalPut

ResumeSpec == ResumeInit /\ [][ResumeNext]_vars

\* ten NUL bytes, to be stored in blocks of 4
ZeroSource == [j \in 1..10 |-> NUL]

ZeroStart ==
    /\ src = ZeroSource
    /\ blocksize = 4
    /\ blocks \in SUBSET {pithos_hash(Read(src, 0, blocksize))}
    /\ Idle

\* a short source or the ten NUL bytes, and a store that answers by what it holds
ZeroInit == (Start \/ ZeroStart) /\ faithful = TRUE

\* repeated calls from there
ZeroSpec == ZeroInit /\ [][ResumeNext]_vars

\* a call that passes progress generators, well-behaved or short
SinkCreate ==
    \E a \in SizeArgs, h \in SinkArgs, u \in SinkArgs :
        callNo = 0 /\ (h # <<>> \/ u # <<>>) /\ create_object(a, 0, h, u)

SinkNext ==
    \/ SinkCreate
    \/ HashBlock
    \/ AssertSize
    \/ PutHashmap
    \/ UploadBlock
    \/ FinalPut

\* one call with progress generators, against a store that answers by what it holds
SinkSpec == ResumeInit /\ [][SinkNext]_vars

\* ------------------------------------------------- properties
InCreate == op = "create_object"

Uploads == SelectSeq(log, LAMBDA e : e.req = "block")

Submissions == SelectSeq(log, LAMBDA e : e.req = "hashmap")

NoDup(s) == Cardinality(Range(s)) = Len(s)

\* the first hash-map submission was answered 409
Negotiated == InCreate /\ log # <<>> /\ log[1].req = "hashmap" /\ log[1].status = 409

\* C1: create_object transmits a block only for a fingerprint listed in the 409
\* reply to its first hash-map submission; a 201 reply to that submission ends the
\* call at once, with no block transmitted and no second submission.
C1_OnlyMissingTransmitted ==
    InCreate =>
        /\ \A j \in 1..Len(log) :
              log[j].req = "block" =>
                  /\ j > 1
                  /\ Negotiated
                  /\ log[j].hash \in Range(log[1].text)
        /\ (log # <<>> /\ log[1].status = 201) => (pc = "done" /\ Len(log) = 1)

C1_Witness ==
    /\ InCreate /\ pc = "done" /\ callNo = 1
    /\ Len(Uploads) = 2
    /\ Len(Submissions) = 2

\* C2: after a create_object that completed without error against a store that
\* answers by what it holds, the same call on the same source, size and position
\* gets 201 to its first hash-map submission and transmits no block.
C2_ResyncStored ==
    ( /\ InCreate /\ callNo >= 2
      /\ prev.op = "create_object" /\ prev.ok
      /\ prev.size = size /\ prev.start = startPos
      /\ honest
      /\ log # <<>> /\ log[1].status # FaultStatus )
    => (log[1].status = 201 /\ Len(log) = 1 /\ pc = "done")

C2_Witness ==
    /\ InCreate /\ callNo = 2 /\ prev.ok /\ prev.accepted # {}
    /\ honest /\ pc = "done" /\ log # <<>> /\ log[1].status = 201

\* C3: when the 409 reply names each missing fingerprint once, each is transmitted
\* at most once however many hash-map positions carry it, and a completed call has
\* transmitted exactly as many blocks as the reply names.
C3_Dedup ==
    (Negotiated /\ NoDup(log[1].text)) =>
        /\ \A j, k \in 1..Len(log) :
              (log[j].req = "block" /\ log[k].req = "block" /\ log[j].hash = log[k].hash)
                  => j = k
        /\ Len(Uploads) <= Len(log[1].text)
        /\ pc = "done" => Len(Uploads) = Cardinality(Range(log[1].text))

C3_Witness ==
    /\ Negotiated /\ pc = "done" /\ NoDup(log[1].text)
    /\ Len(log[1].text) = 2
    /\ \E j, k \in 1..Len(hashes) :
          j # k /\ hashes[j] = hashes[k] /\ hashes[j] \in Range(log[1].text)
    /\ Len(Uploads) = 2

\* positions of the hash map that carry fingerprint h
Positions(h) == {j \in 1..Len(hashes) : hashes[j] = h}

Max(S) == CHOOSE x \in S : \A y \in S : x >= y

\* C4 as stated: the range sought and read for a missing fingerprint is the
\* (offset, length) of the FIRST block, in block order, that has the fingerprint.
C4_FirstBlockRange ==
    InCreate =>
        \A j \in 1..Len(log) :
            (log[j].req = "block" /\ Positions(log[j].hash) # {})
                => log[j].at = chunks[Min(Positions(log[j].hash))]

\* C4 amended: the range sought and read for a missing fingerprint is the
\* (offset, length) of the LAST block, in block order, that has the fingerprint.
C4_LastBlockRange ==
    InCreate =>
        \A j \in 1..Len(log) :
            log[j].req = "block" =>
                /\ Positions(log[j].hash) # {}
                /\ log[j].at = chunks[Max(Positions(log[j].hash))]

C4_Witness ==
    /\ InCreate /\ startPos = 0
    /\ \E j \in 1..Len(log) :
          /\ log[j].req = "block" /\ log[j].status = 202
          /\ Cardinality(Positions(log[j].hash)) >= 2
          /\ chunks[Min(Positions(log[j].hash))][2] # chunks[Max(Positions(log[j].hash))][2]

\* the call resumes a create_object that failed after the store had accepted blocks
Resumed ==
    /\ InCreate /\ callNo >= 2
    /\ prev.op = "create_object" /\ ~prev.ok /\ prev.accepted # {}
    /\ prev.size = size /\ prev.start = startPos
    /\ honest

\* C5: when create_object is re-invoked after a call that failed with blocks already
\* accepted, those blocks are still in the store, the 409 reply names none of them,
\* none of them is transmitted again, and the call, unless a request fails, ends
\* with every fingerprint of the hash map in the store and a 201 reply.
C5_Resume ==
    Resumed =>
        /\ prev.accepted \subseteq blocks
        /\ Negotiated => Range(log[1].text) \cap prev.accepted = {}
        /\ \A j \in 1..Len(log) :
              log[j].req = "block" =>
                  /\ log[j].hash \notin prev.accepted
                  /\ startPos = 0 => pithos_hash(log[j].body) \notin prev.accepted
        /\ pc = "done" =>
              /\ Range(hashes) \subseteq blocks
              /\ log[Len(log)].req = "hashmap" /\ log[Len(log)].status = 201
        /\ (pc = "failed" /\ startPos = 0) =>
              (err.kind = "ClientError" /\ err.status = FaultStatus)

C5_Witness ==
    /\ Resumed /\ pc = "done" /\ startPos = 0
    /\ Len(Uploads) = 1
    /\ Cardinality(Range(hashes)) >= 2
    /\ prev.accepted \subseteq Range(hashes)

RECURSIVE SumBytes(_)
\* bytes the hashing loop has read: the sum of the lengths in a sequence of chunks
SumBytes(cs) == IF cs = <<>> THEN 0 ELSE cs[1][2] + SumBytes(Tail(cs))

\* C6: when the bytes read by the hashing loop differ from the declared size, the
\* call fails on the size assertion with no request issued: no hash-map submission,
\* no block.
C6_SizeMismatchFailsFast ==
    (InCreate /\ pc # "hashing" /\ SumBytes(chunks) # size) =>
        /\ pc = "failed"
        /\ err = AssertionError("size")
        /\ log = <<>>
        /\ accepted = {}

C6_Witness ==
    /\ InCreate /\ pc = "failed" /\ err = AssertionError("size")
    /\ chunks # <<>> /\ SumBytes(chunks) > 0 /\ SumBytes(chunks) < size

\* C7: the finalizing submission comes after a 409 and the acceptance of every
\* listed block, carries the hash map first submitted, is the last request of the
\* call, and any reply to it other than 201 ends the call in a ClientError.
C7_Finalize ==
    InCreate =>
        \A j \in 2..Len(log) :
            log[j].req = "hashmap" =>
                /\ j = Len(log)
                /\ Negotiated
                /\ Len(log) = Len(log[1].text) + 2
                /\ \A k \in 2..(j - 1) :
                      /\ log[k].req = "block" /\ log[k].status = 202
                      /\ log[k].hash = log[1].text[k - 1]
                /\ log[j].body = log[1].body
                /\ log[j].body = hashmap
                /\ pc \in {"done", "failed"}
                /\ log[j].status = 201 => pc = "done"
                /\ log[j].status # 201 =>
                      (pc = "failed" /\ err = ClientError("finalize", log[j].status))

C7_Witness ==
    /\ InCreate /\ pc = "failed" /\ err.phase = "finalize"
    /\ Len(log) >= 3 /\ log[Len(log)].status = 409

\* the reply to a block POST, trimmed, is not the fingerprint the block was sent for
Mismatch(e) == e.req = "block" /\ e.status = 202 /\ Strip(e.text) # <<e.hash>>

\* C8: a block POST answered 202 with a body that, trimmed, is not the block's
\* fingerprint is the last request of the call, which fails on the assertion of
\* put_block; a body that differs only by surrounding whitespace is accepted.
C8_FingerprintCheck ==
    InCreate =>
        /\ \A j \in 1..Len(log) :
              Mismatch(log[j]) =>
                  /\ j = Len(log)
                  /\ pc = "failed"
                  /\ err = AssertionError("put_block")
        /\ err = AssertionError("put_block") => (log # <<>> /\ Mismatch(log[Len(log)]))

C8_Witness ==
    /\ InCreate /\ pc = "failed" /\ err = AssertionError("put_block")
    /\ Len(log) = 3
    /\ log[2].req = "block" /\ log[2].text = <<log[2].hash, WS>>
    /\ Len(log[1].text) = 2

\* C9 as stated: an error raised by a failed block POST names the block that was
\* being processed, by its offset or its fingerprint.
C9_ErrorNamesBlock ==
    (InCreate /\ pc = "failed" /\ err.kind = "ClientError" /\ err.phase = "put_block")
        => err.block \in {log[Len(log)].hash, log[Len(log)].at}

RECURSIVE BodyBytes(_)
\* bytes transmitted by a sequence of requests
BodyBytes(es) == IF es = <<>> THEN 0 ELSE Len(es[1].body) + BodyBytes(Tail(es))

\* C10 as stated: the i-th window of overwrite_object carries a Content-Range that
\* starts at start plus the bytes transmitted by the windows before it.
C10_RunningRange ==
    op = "overwrite_object" =>
        \A j \in 1..Len(log) :
            log[j].headers["Content-Range"][2] = start + BodyBytes(SubSeq(log, 1, j - 1))

\* ------------------------------------------------- progress generators: properties
\* the running call was handed a progress generator
WithSink == InCreate /\ (hash_cb # <<>> \/ upload_cb # <<>>)

\* C11 as stated: a progress generator that fails when it is notified (here: one
\* that answers fewer next() calls than it gets) changes nothing; the call goes on
\* to the requests and the outcome of the same call without generators, so it
\* never ends with the generator's exception.
C11_SinkAdvisory == WithSink => err.kind # "StopIteration"

\* the next() calls the hash generator answered
HashNotes == SelectSeq(notes, LAMBDA n : n.sink = "hash")

\* the next() calls made on the hash generator: those answered and the one that raised
HashCalls == Len(HashNotes) + (IF err = StopIteration("hash") THEN 1 ELSE 0)

UploadNotes == SelectSeq(notes, LAMBDA n : n.sink = "upload")

\* the next() calls made on the upload generator: those answered and the one that
\* raised
UploadCalls == Len(UploadNotes) + (IF err = StopIteration("upload") THEN 1 ELSE 0)

\* the first hash-map PUT was answered 409
Answered409 == log # <<>> /\ log[1].status = 409

SourceHolds == Len(src) - startPos >= size

\* the hashing pass is over and its assert passed
Hashed_Ok == pc \in {"put1", "upload", "done"} \/ log # <<>>

\* C14: for a size >= 0 the source can supply, the blocks of the hashing pass start
\* at 0, blocksize, 2 * blocksize, ... with no gap and no overlap; every block but
\* the last is blocksize long, the last is size minus its offset long, between 1
\* and blocksize; the lengths sum to size, so the assert passes; size 0 gives no
\* block and a hash map without hashes.
C14_Chunking ==
    (InCreate /\ size >= 0 /\ (SourceHolds \/ Hashed_Ok)) =>
        /\ Len(chunks) = i /\ i <= nblocks
        /\ nblocks * blocksize >= size /\ (nblocks - 1) * blocksize < size
        /\ \A j \in 1..Len(chunks) :
              /\ chunks[j][1] = (j - 1) * blocksize
              /\ j > 1 => chunks[j][1] = chunks[j - 1][1] + chunks[j - 1][2]
              /\ j < nblocks => chunks[j][2] = blocksize
              /\ j = nblocks => /\ chunks[j][2] = size - chunks[j][1]
                                /\ chunks[j][2] \in 1..blocksize
        /\ pc \in {"hashing", "put1"} => SumBytes(chunks) = offset
        /\ err # AssertionError("size")
        /\ pc # "hashing" => (Len(chunks) = nblocks /\ SumBytes(chunks) = size)
        /\ size = 0 => (nblocks = 0 /\ chunks = <<>> /\ hashes = <<>>)
        /\ (size = 0 /\ log # <<>>) => log[1].body = [bytes |-> 0, hashes |-> <<>>]

C14_Witness ==
    /\ InCreate /\ pc = "put1" /\ size = 3 /\ blocksize = 2 /\ Len(src) = 3
    /\ chunks = << <<0, 2>>, <<2, 1>> >>

\* ------------------------------------------------- append_object: properties
RECURSIVE Bodies(_)
\* the bodies of a sequence of requests, one after the other
Bodies(es) == IF es = <<>> THEN <<>> ELSE es[1].body \o Bodies(Tail(es))

\* an append_object call that returned
Appended == op = "append_object" /\ pc = "done"

\* C15 as stated: append_object sends the source in order, every request under
\* Content-Range 'bytes */*', every body but the last blocksize long and the last
\* between 1 and blocksize, the bodies together being the content of the source;
\* an empty source sends nothing.
C15_AppendWhole ==
    Appended =>
        /\ \A j \in 1..Len(log) :
              /\ log[j].headers["Content-Range"] = <<"bytes", Star, Star>>
              /\ j < Len(log) => Len(log[j].body) = blocksize
              /\ Len(log[j].body) \in 1..blocksize
        /\ Bodies(log) = src
        /\ src = <<>> => log = <<>>

\* C15: the same, for a source that is read from its first byte; from any
\* position the requests carry Content-Range 'bytes */*' and the bytes read, in
\* the order read, there are at most ceil(filesize / blocksize) of them, and a
\* request that fails is the last one.
C15_Append ==
    op = "append_object" =>
        /\ \A j \in 1..Len(log) :
              /\ log[j].req = "append"
              /\ log[j].headers["Content-Range"] = <<"bytes", Star, Star>>
              /\ log[j].headers["Content-Length"] = Len(log[j].body)
              /\ log[j].body = Read(src, log[j].at[1], blocksize)
              /\ j > 1 => log[j].at[1] = log[j - 1].at[1] + Len(log[j - 1].body)
              /\ j < Len(log) => log[j].status \in {202, 204}
              /\ startPos = 0 =>
                    /\ log[j].at[1] = (j - 1) * blocksize
                    /\ j < nblocks => Len(log[j].body) = blocksize
                    /\ Len(log[j].body) \in 1..blocksize
        /\ Len(log) = i /\ i <= nblocks
        /\ nblocks * blocksize >= Len(src) /\ (nblocks - 1) * blocksize < Len(src)
        /\ pc = "done" => Len(log) = nblocks
        /\ (pc = "done" /\ startPos = 0) => Bodies(log) = src
        /\ src = <<>> => (log = <<>> /\ pc = "done")
        /\ pc = "failed" => (log # <<>> /\ log[Len(log)].status = FaultStatus)

C15_Witness ==
    /\ Appended /\ startPos = 0 /\ blocksize = 2 /\ Len(src) = 3
    /\ Len(log) = 2 /\ Len(log[2].body) = 1 /\ Bodies(log) = src

\* ------------------------------------------------- truncate_object: properties
\* C16: truncate_object issues one request and no other: a POST without data to
\* the object's path whose headers are X-Object-Bytes = upto_bytes, Content-Range
\* 'bytes 0-<upto_bytes>/*' and X-Source-Object naming the same object in the same
\* container; the source file is not read, no hash map is put, no block is sent.
C16_Truncate ==
    op = "truncate_object" =>
        /\ pc \in {"done", "failed"}
        /\ Len(log) = 1
        /\ LET r == log[1]
           IN /\ r.req = "truncate"
              /\ r.body = NoBlock
              /\ r.headers["X-Object-Bytes"] = r.upto_bytes
              /\ r.headers["Content-Range"] = <<"bytes", 0, r.upto_bytes>>
              /\ r.headers["Content-Type"] = "application/octet-stream"
              /\ r.headers["X-Source-Object"] = <<"container", r.object>>
              /\ r.path = <<"account", "container", r.object>>
              /\ "Content-Length" \notin DOMAIN r.headers
              /\ pc = "done" <=> r.status \in {202, 204}
        /\ fpos = startPos
        /\ hashes = <<>> /\ accepted = {}

C16_Witness ==
    /\ op = "truncate_object" /\ pc = "done" /\ Len(src) = 3
    /\ log[1].upto_bytes = 2 /\ log[1].object = "other" /\ log[1].status = 204

\* ------------------------------------------------- fingerprints: properties
\* the bytes of the j-th block the hashing loop read
BlockBytes(j) == Read(src, startPos + chunks[j][1], chunks[j][2])

\* n NUL bytes
Nuls(n) == [j \in 1..n |-> NUL]

\* the hashing pass over the ten NUL bytes, read from the first, is over
TenZeros ==
    /\ InCreate /\ src = ZeroSource /\ blocksize = 4 /\ size = 10 /\ startPos = 0
    /\ Hashed_Ok

\* C17: the fingerprint of a block does not change with the NUL bytes at its end:
\* blocks that are equal up to trailing NULs share a fingerprint, and a block of
\* NULs has the fingerprint of the empty string. Ten NUL bytes in blocks of 4 are
\* the blocks (0, 4), (4, 4), (8, 2) under one fingerprint, of which a store that
\* answers by what it holds asks for one upload at most.
C17_TrailingNul ==
    InCreate =>
        /\ \A j \in 1..Len(chunks) :
              /\ hashes[j] = Digest(Rstrip(BlockBytes(j)))
              /\ \A n \in 0..MaxBlockSize :
                    pithos_hash(BlockBytes(j) \o Nuls(n)) = hashes[j]
              /\ BlockBytes(j) = Nuls(Len(BlockBytes(j))) => hashes[j] = Digest(<<>>)
              /\ \A k \in 1..Len(chunks) :
                    Rstrip(BlockBytes(j)) = Rstrip(BlockBytes(k)) <=> hashes[j] = hashes[k]
        /\ TenZeros =>
              /\ chunks = << <<0, 4>>, <<4, 4>>, <<8, 2>> >>
              /\ hashes = << Digest(<<>>), Digest(<<>>), Digest(<<>>) >>
              /\ Len(Uploads) <= 1
              /\ Len(missing) <= 1

C17_Witness ==
    /\ TenZeros /\ pc = "done" /\ Len(log) = 3
    /\ Len(Uploads) = 1 /\ Uploads[1].body = Nuls(2)

\* ------------------------------------------------- order of the phases
\* the reply to a block POST is one put_block returns on
Verified(e) == e.status = 202 /\ Strip(e.text) = <<e.hash>>

\* C18: the phases of create_object follow one another. No request goes out while
\* blocks are being hashed, and the first is the hash-map PUT; a block is sent only
\* after that PUT was answered 409; blocks go one at a time in the order of the
\* missing list, each after the one before was accepted; the finalizing PUT goes
\* after the block of the last entry was accepted, and nothing follows it.
C18_PhaseOrder ==
    InCreate =>
        /\ pc = "hashing" => log = <<>>
        /\ log # <<>> =>
              /\ i = nblocks /\ Len(hashes) = nblocks
              /\ log[1].req = "hashmap"
              /\ log[1].body.hashes = hashes
        /\ \A j \in 1..Len(log) :
              /\ log[j].req = "block" =>
                    /\ j > 1 /\ log[1].status = 409 /\ log[1].text = missing
                    /\ j - 1 <= Len(missing) /\ log[j].hash = missing[j - 1]
                    /\ \A k \in 2..(j - 1) : log[k].req = "block" /\ Verified(log[k])
              /\ (log[j].req = "hashmap" /\ j > 1) =>
                    /\ log[1].status = 409
                    /\ j = Len(missing) + 2 /\ j = Len(log)
                    /\ \A k \in 2..(j - 1) : log[k].req = "block" /\ Verified(log[k])
        /\ Len(Uploads) <= Len(missing)

C18_Witness ==
    /\ InCreate /\ pc = "done" /\ Len(log) = 4 /\ Len(missing) = 2
    /\ missing[1] # missing[2] /\ missing[1] = hashes[2] /\ missing[2] = hashes[1]
    /\ log[2].hash = missing[1] /\ log[3].hash = missing[2] /\ log[4].req = "hashmap"

\* ------------------------------------------------- no retry
\* the j-th request of create_object got a reply the call does not go on from
Refused(j) ==
    LET e == log[j]
    IN IF e.req = "block" THEN ~Verified(e)
       ELSE IF j = 1 THEN e.status \notin {201, 409}
       ELSE e.status \notin FinalSuccess

\* what create_object has sent never exceeds two hash-map PUTs and one block per
\* entry of the missing list, and a refused request is the last one
Bounded ==
    InCreate =>
        /\ Len(Submissions) <= 2
        /\ Len(Uploads) <= Len(missing)
        /\ \A j \in 1..Len(Uploads) : Uploads[j].hash = missing[j]
        /\ Len(log) <= Len(missing) + 2
        /\ \A j \in 1..Len(log) :
              Refused(j) => (j = Len(log) /\ pc = "failed" /\ err # NoErr)
        /\ pc \in {"done", "failed"} => ~ENABLED CallSteps

\* C19: create_object retries nothing. It sends at most two hash-map PUTs and at
\* most one block per entry of the missing list; the first request that fails is
\* the last request of the call; and every call ends, having sent at most
\* len(missing) + 2 requests.
C19_NoRetry == []Bounded /\ (InCreate ~> (pc \in {"done", "failed"}))

C19_Witness ==
    /\ InCreate /\ pc = "failed" /\ Len(missing) = 2 /\ Len(log) = 3
    /\ log[2].status = 202 /\ log[3].req = "block" /\ log[3].status = FaultStatus

\* ------------------------------------------------- the hash map: properties
\* C20: every hash map create_object submits has `bytes` equal to the size the
\* call works with and `hashes` of ceil(size / blocksize) fingerprints, none for
\* size 0, the k-th being the fingerprint of the k-th block read from the source;
\* the finalizing PUT carries the hash map of the first one.
C20_HashMapShape ==
    InCreate =>
        \A j \in 1..Len(Submissions) :
            LET hm == Submissions[j].body
                n == Len(hm.hashes)
            IN /\ hm.bytes = size /\ size >= 0
               /\ n * blocksize >= size /\ (n - 1) * blocksize < size
               /\ size = 0 <=> hm.hashes = <<>>
               /\ \A k \in 1..n :
                     hm.hashes[k] =
                         pithos_hash(Read(src, startPos + (k - 1) * blocksize,
                                          Min({blocksize, size - (k - 1) * blocksize})))
               /\ hm = hashmap
               /\ hm = Submissions[1].body

C20_Witness ==
    /\ InCreate /\ pc = "done" /\ Len(Submissions) = 2 /\ size = 3 /\ blocksize = 2
    /\ Len(Submissions[2].body.hashes) = 2
    /\ Submissions[2].body.hashes[1] # Submissions[2].body.hashes[2]
    /\ Submissions[2].body.bytes = 3

\* ------------------------------------------------- a fingerprint the hash map lacks
\* the entries of the missing list that are no fingerprint of the hash map
Strangers == {k \in 1..Len(missing) : missing[k] \notin Range(hashes)}

\* C21: when the missing list of the 409 reply holds a fingerprint the submitted
\* hash map does not, create_object ends with KeyError on reaching the first such
\* entry: no block is sent for it, no entry after it is processed, no finalizing
\* PUT goes out and the call does not return.
C21_ForeignFingerprint ==
    InCreate =>
        /\ DOMAIN map = Range(hashes)
        /\ \A k \in Strangers :
              /\ pc # "done"
              /\ Len(Submissions) <= 1
              /\ m < k /\ Len(Uploads) < k
              /\ \A j \in 1..Len(Uploads) : Uploads[j].hash # missing[k]
              /\ (pc = "failed" /\ m = k - 1 /\ Len(Uploads) = m
                  /\ (m > 0 => Verified(Uploads[m])))
                    => (err = KeyError(missing[k]) /\ Len(log) = k)
        /\ err.kind = "KeyError" =>
              /\ pc = "failed" /\ m + 1 = Min(Strangers)
              /\ err = KeyError(missing[m + 1])
              /\ Len(Uploads) = m /\ Len(log) = m + 1

C21_Witness ==
    /\ InCreate /\ pc = "failed" /\ err = KeyError(Foreign)
    /\ Len(missing) = 2 /\ missing[1] \in Range(hashes) /\ missing[2] = Foreign
    /\ Len(Uploads) = 1 /\ Uploads[1].status = 202

\* ------------------------------------------------- bodies and fingerprints
\* C22: when create_object is called on a source at position 0 that holds size
\* bytes, every block it sends hashes, trailing NULs dropped, to the fingerprint
\* it is sent for, also when blocks of different lengths share a fingerprint: the
\* body is the block the map entry of the fingerprint points to. The hashing loop
\* only reads on from where the source stands; the upload loop seeks, once for each
\* entry it sends, to the offset of the map entry.
C22_BodyMatchesFingerprint ==
    InCreate =>
        /\ pc \in {"hashing", "put1"} => fpos = startPos + SumBytes(chunks)
        /\ \A j \in 1..Len(Uploads) :
              LET u == Uploads[j]
              IN /\ u.at = map[u.hash]
                 /\ u.hash = missing[j]
                 /\ \E k \in 1..Len(chunks) : chunks[k] = u.at /\ hashes[k] = u.hash
                 /\ u.body = Read(src, u.at[1], u.at[2])
                 /\ (startPos = 0 /\ SourceHolds) =>
                       /\ pithos_hash(u.body) = u.hash
                       /\ Len(u.body) = u.at[2]
        /\ (pc = "upload" /\ Uploads # <<>>) =>
              fpos = Uploads[Len(Uploads)].at[1] + Len(Uploads[Len(Uploads)].body)

\* two blocks of different lengths under one fingerprint, sent once
C22_Witness ==
    /\ InCreate /\ startPos = 0 /\ SourceHolds /\ pc = "done"
    /\ Len(chunks) = 2 /\ chunks[1][2] # chunks[2][2] /\ hashes[1] = hashes[2]
    /\ hashes[1] # Digest(<<>>)
    /\ Len(Uploads) = 1 /\ Uploads[1].at = chunks[2]
    /\ pithos_hash(Uploads[1].body) = Uploads[1].hash

\* ------------------------------------------------- what a return means
\* a create_object call that returned
Returned == InCreate /\ pc = "done"

\* C23: create_object returns only on a 201 to a PUT of the whole hash map: the
\* first PUT, or the finalizing one, sent after a 409 once a block was sent for
\* every entry of the missing list, in order, and each was answered 202 with the
\* fingerprint it was sent for. A call in which an upload failed or an entry was
\* passed over does not return.
C23_SuccessConfirmed ==
    Returned =>
        /\ err = NoErr /\ log # <<>>
        /\ LET last == log[Len(log)]
           IN /\ last.req = "hashmap" /\ last.status = 201
              /\ last.body = [bytes |-> size, hashes |-> hashes]
              /\ Len(last.body.hashes) = nblocks /\ SumBytes(chunks) = size
        /\ \A j \in 1..(Len(log) - 1) : ~Refused(j)
        /\ Len(log) > 1 =>
              /\ log[1].req = "hashmap" /\ log[1].status = 409 /\ log[1].text = missing
              /\ Len(log) = Len(missing) + 2
              /\ \A k \in 1..Len(missing) :
                    /\ log[k + 1].req = "block" /\ log[k + 1].hash = missing[k]
                    /\ Verified(log[k + 1])
              /\ Strangers = {}

C23_Witness ==
    /\ Returned /\ Len(log) = 4 /\ log[1].status = 409 /\ log[4].status = 201
    /\ Verified(log[2]) /\ Verified(log[3]) /\ log[3].text = <<log[3].hash, WS>>

\* ------------------------------------------------- overwrite_object: volume
\* an overwrite_object call that returned
Overwritten == op = "overwrite_object" /\ pc = "done"

\* the bytes the source holds from the position the call reads from
Avail == RangeLen(Len(src) - startPos)

\* C24 as stated: overwrite_object sends max(0, ceil(datasize / blocksize))
\* requests whatever the length of the source, each body of at most blocksize
\* bytes, the bodies being consecutive bytes from the read position and
\* min(source size, datasize) bytes in all; none when end < start.
C24_OverwriteWhole ==
    Overwritten =>
        /\ datasize = end - start + 1
        /\ Len(log) = RangeLen(nblocks)
        /\ datasize > 0 => (nblocks * blocksize >= datasize
                            /\ (nblocks - 1) * blocksize < datasize)
        /\ \A j \in 1..Len(log) : Len(log[j].body) <= blocksize
        /\ BodyBytes(log) = RangeLen(Min({Len(src), datasize}))
        /\ end < start => (log = <<>> /\ err = NoErr)

\* C24: the same with the bytes counted from the read position: the bodies of a
\* call that returned are min(bytes left in the source from the read position,
\* datasize) bytes in all, each window taking what is left of that up to
\* blocksize and the windows after it being empty; a request that is refused is
\* the last one.
C24_OverwriteVolume ==
    op = "overwrite_object" =>
        /\ datasize = end - start + 1
        /\ Len(log) = i /\ i <= RangeLen(nblocks)
        /\ datasize > 0 => (nblocks * blocksize >= datasize
                            /\ (nblocks - 1) * blocksize < datasize)
        /\ datasize <= 0 => (nblocks <= 0 /\ log = <<>> /\ pc = "done" /\ err = NoErr)
        /\ pc = "done" => Len(log) = RangeLen(nblocks)
        /\ \A j \in 1..Len(log) :
              LET before == BodyBytes(SubSeq(log, 1, j - 1))
              IN /\ log[j].req = "range"
                 /\ Len(log[j].body) =
                        Min({blocksize, Avail - before, datasize - before})
                 /\ log[j].body = Read(src, startPos + before, Len(log[j].body))
                 /\ j < Len(log) => log[j].status \in {202, 204}
        /\ pc = "done" => BodyBytes(log) = RangeLen(Min({Avail, datasize}))
        /\ pc = "failed" => (log # <<>> /\ log[Len(log)].status = FaultStatus)

\* a source shorter than the range: the last window is empty
C24_Witness ==
    /\ Overwritten /\ startPos = 0 /\ blocksize = 1 /\ Len(src) = 2 /\ datasize = 3
    /\ Len(log) = 3 /\ log[3].body = <<>> /\ BodyBytes(log) = 2

====
